---- MODULE Spec2Model ----
(***************************************************************************)
(* A model of src/app.py: the electorate matcher of the MP letters         *)
(* converter.  Text is modelled as a tuple of one-character strings, a     *)
(* DataFrame as a record of its column names and its rows, a Python dict   *)
(* as a tuple of key/value entries in insertion order.                     *)
(***************************************************************************)
EXTENDS Integers, Sequences, FiniteSets, TLC

(* ------------------------------------------------------------------ *)
(* Bounds of the model                                                *)
(* ------------------------------------------------------------------ *)
MaxMps == 2
MaxLetters == 2
MaxSortLetters == 3
MaxLen == 5

(* ------------------------------------------------------------------ *)
(* Text                                                                *)
(* ------------------------------------------------------------------ *)

\* A cell pandas read as missing (a blank CSV field): the float NaN.
NaN == <<"NaN">>

\* str(x) of a cell: the text itself, or "nan" for the missing value.
Str(cell) == IF cell = NaN THEN <<"n", "a", "n">> ELSE cell

\* The characters str.strip() removes (those the model's texts can hold).
Whitespace == {" ", "\n", "\t"}

RECURSIVE LStrip(_)
LStrip(s) ==
  IF s = <<>> THEN <<>>
  ELSE IF Head(s) \in Whitespace THEN LStrip(Tail(s)) ELSE s

RECURSIVE RStrip(_)
RStrip(s) ==
  IF s = <<>> THEN <<>>
  ELSE IF s[Len(s)] \in Whitespace THEN RStrip(SubSeq(s, 1, Len(s) - 1)) ELSE s

\* s.strip()
Strip(s) == RStrip(LStrip(s))

\* s.split(sep) for a one-character separator: never empty, "" gives [""].
RECURSIVE Split(_, _)
Split(s, sep) ==
  IF \A i \in 1..Len(s) : s[i] # sep THEN <<s>>
  ELSE LET k == CHOOSE i \in 1..Len(s) :
                   s[i] = sep /\ \A j \in 1..(i - 1) : s[j] # sep
       IN  <<SubSeq(s, 1, k - 1)>> \o Split(SubSeq(s, k + 1, Len(s)), sep)

\* [f(e) for e in xs]
RECURSIVE StripAll(_)
StripAll(xs) ==
  IF xs = <<>> THEN <<>> ELSE <<Strip(Head(xs))>> \o StripAll(Tail(xs))

\* [e.strip() for e in xs if e.strip()]
RECURSIVE StripNonEmpty(_)
StripNonEmpty(xs) ==
  IF xs = <<>> THEN <<>>
  ELSE (IF Strip(Head(xs)) # <<>> THEN <<Strip(Head(xs))>> ELSE <<>>)
       \o StripNonEmpty(Tail(xs))

\* The loop of lines 102-104 over the newline-separated parts.
RECURSIVE temp_electorates(_)
temp_electorates(parts) ==
  IF parts = <<>> THEN <<>>
  ELSE StripAll(Split(Head(parts), ",")) \o temp_electorates(Tail(parts))

\* As SplitParts, without the split on newlines.
SplitPartsCommaOnly(electorate_raw) == <<electorate_raw>>

\* Line 103: the ELECTORATE text cut at its newlines.
SplitParts(electorate_raw) == Split(electorate_raw, "\n")

\* The candidate tokens of one letter row: the list `electorates` of
\* process_files after line 111.
LetterTokens(letter) ==
  LET electorate_raw == Str(letter.ELECTORATE)
      electorates    == StripNonEmpty(temp_electorates(SplitParts(electorate_raw)))
      state          == Strip(Str(letter.STATE_))
  IN  IF state # <<>> THEN Append(electorates, state) ELSE electorates

(* ------------------------------------------------------------------ *)
(* Python dicts, in insertion order                                    *)
(* ------------------------------------------------------------------ *)

DictKeys(d) == [i \in 1..Len(d) |-> d[i].k]
DictKeySet(d) == {d[i].k : i \in 1..Len(d)}
DictHas(d, key) == key \in DictKeySet(d)
DictGet(d, key) == d[CHOOSE i \in 1..Len(d) : d[i].k = key].v
\* d[key] = value: a key already present keeps its place.
DictPut(d, key, value) ==
  IF DictHas(d, key)
  THEN [i \in 1..Len(d) |-> IF d[i].k = key THEN [k |-> key, v |-> value] ELSE d[i]]
  ELSE Append(d, [k |-> key, v |-> value])

(* ------------------------------------------------------------------ *)
(* Dates                                                               *)
(* ------------------------------------------------------------------ *)
\* A date text "<month> <day>, <year>" is the tuple <<month, day, year>>,
\* the year being its four digits read as a number; any other text is a
\* tuple of another length.

MonthAbbr == <<"Jan", "Feb", "Mar", "Apr", "May", "Jun",
               "Jul", "Aug", "Sep", "Oct", "Nov", "Dec">>
MonthFull == <<"January", "February", "March", "April", "May", "June", "July",
               "August", "September", "October", "November", "December">>

IsLeap(y) == (y % 4 = 0 /\ y % 100 # 0) \/ y % 400 = 0
DaysIn(m, y) ==
  IF m = 2 THEN (IF IsLeap(y) THEN 29 ELSE 28)
  ELSE IF m \in {4, 6, 9, 11} THEN 30 ELSE 31

\* datetime.min, as <<year, month, day>>
datetime_min == <<1, 1, 1>>

\* datetime.strptime(date_str, "<names> %d, %Y"): a date, ValueError when the
\* text does not match the format or names no day of the calendar, TypeError
\* when the argument is no text at all.
strptime(date_str, names) ==
  IF date_str = NaN THEN [exc |-> "TypeError", dt |-> datetime_min]
  ELSE IF Len(date_str) # 3 THEN [exc |-> "ValueError", dt |-> datetime_min]
  ELSE LET mon == date_str[1]
           d   == date_str[2]
           y   == date_str[3]
       IN  IF /\ \E m \in 1..12 : names[m] = mon
              /\ d \in 1..31
              /\ y \in 1..9999
              /\ d <= DaysIn(CHOOSE m \in 1..12 : names[m] = mon, y)
           THEN [exc |-> "", dt |-> <<y, CHOOSE m \in 1..12 : names[m] = mon, d>>]
           ELSE [exc |-> "ValueError", dt |-> datetime_min]

\* parse_date: only ValueError is caught, by either try.
parse_date(date_str) ==
  LET first == strptime(date_str, MonthAbbr)
  IN  IF first.exc # "ValueError" THEN first
      ELSE LET second == strptime(date_str, MonthFull)
           IN  IF second.exc # "ValueError" THEN second
               ELSE [exc |-> "", dt |-> datetime_min]

\* a < b and a <= b on datetimes
DateLess(a, b) ==
  \/ a[1] < b[1]
  \/ a[1] = b[1] /\ a[2] < b[2]
  \/ a[1] = b[1] /\ a[2] = b[2] /\ a[3] < b[3]
DateLeq(a, b) == a = b \/ DateLess(a, b)

\* The sort key of line 37.
SortKey(letter) == parse_date(letter.Submission_Date).dt

\* sorted(letters, key=...): ascending and stable.
RECURSIVE sorted_letters(_)
sorted_letters(letters) ==
  IF letters = <<>> THEN <<>>
  ELSE LET x       == letters[Len(letters)]
           front   == sorted_letters(SubSeq(letters, 1, Len(letters) - 1))
           NotAfter(e) == DateLeq(SortKey(e), SortKey(x))
           After(e)    == DateLess(SortKey(x), SortKey(e))
       IN  SelectSeq(front, NotAfter) \o <<x>> \o SelectSeq(front, After)

(* ------------------------------------------------------------------ *)
(* Documents                                                           *)
(* ------------------------------------------------------------------ *)

\* s.replace(old, new): every occurrence, left to right, not overlapping.
RECURSIVE Replace(_, _, _)
Replace(s, old, new) ==
  IF Len(s) < Len(old) THEN s
  ELSE IF SubSeq(s, 1, Len(old)) = old
       THEN new \o Replace(SubSeq(s, Len(old) + 1, Len(s)), old, new)
       ELSE <<Head(s)>> \o Replace(Tail(s), old, new)

Placeholder == <<"[", "M", "P", " ", "N", "a", "m", "e", "]">>

replace_mp_name_in_letter(letter_content, salutation, last_name) ==
  Replace(letter_content, Placeholder, salutation \o <<" ">> \o last_name)

\* create_docx_for_electorate: the document is the list of its letter
\* blocks; exc is the exception the sort key raised, if any.
create_docx_for_electorate(electorate, mp_info, letters) ==
  IF \E i \in 1..Len(letters) : parse_date(letters[i].Submission_Date).exc # ""
  THEN [exc |-> "TypeError", blocks |-> <<>>]
  ELSE LET sl == sorted_letters(letters)
       IN  [exc    |-> "",
            blocks |-> [i \in 1..Len(sl) |->
               [Date       |-> sl[i].Submission_Date,
                Content    |-> replace_mp_name_in_letter(
                                 sl[i].Your_letter, mp_info.Salutation, mp_info.Last_name),
                Location   |-> <<sl[i].POSTCODE, sl[i].STATE_>>,
                page_break |-> i < Len(sl),
                row        |-> sl[i].row]]]

(* ------------------------------------------------------------------ *)
(* process_files: lookup and grouping                                  *)
(* ------------------------------------------------------------------ *)

full_name(mp) == mp.First_name \o <<" ">> \o mp.Last_name

\* f"{electorate}_{full_name}"
mp_key(mp) == mp.State_Electorate \o <<"_">> \o full_name(mp)

mp_entry(mp) ==
  [Electorate |-> mp.State_Electorate,
   Salutation |-> mp.Salutation,
   First_name |-> mp.First_name,
   Last_name  |-> mp.Last_name,
   Fullname   |-> full_name(mp)]

\* The loop of lines 80-91 (and of 233-244) over the representative rows.
RECURSIVE BuildMpDict(_)
BuildMpDict(rows) ==
  IF rows = <<>> THEN <<>>
  ELSE LET mp == rows[Len(rows)]
       IN  DictPut(BuildMpDict(SubSeq(rows, 1, Len(rows) - 1)), mp_key(mp), mp_entry(mp))

\* As matching_mps, without the comparison of the Electorate.
matching_mps_any(dict, electorate) == DictKeys(dict)

\* Line 115: the keys whose Electorate equals the token, in dict order.
matching_mps(dict, electorate) ==
  LET Match(key) == DictGet(dict, key).Electorate = electorate
  IN  SelectSeq(DictKeys(dict), Match)

\* Lines 122-127: the copy of a letter row a bucket receives; row is the
\* iterrows index the copy was made from.
letter_copy(letter, idx) ==
  [Submission_Date |-> letter.Submission_Date,
   Your_letter     |-> letter.Your_letter,
   POSTCODE        |-> letter.POSTCODE,
   STATE_          |-> letter.STATE_,
   row             |-> idx]

\* As AppendToBuckets, with the append in an else branch: a bucket is
\* created empty and filled only from the next copy on.
RECURSIVE AppendToBucketsElse(_, _, _)
AppendToBucketsElse(buckets, keys, copy) ==
  IF keys = <<>> THEN buckets
  ELSE LET key == Head(keys)
           new == IF DictHas(buckets, key)
                  THEN Append(DictGet(buckets, key), copy) ELSE <<>>
       IN  AppendToBucketsElse(DictPut(buckets, key, new), Tail(keys), copy)

\* Lines 118-127 for the keys matched by one token.
RECURSIVE AppendToBuckets(_, _, _)
AppendToBuckets(buckets, keys, copy) ==
  IF keys = <<>> THEN buckets
  ELSE LET key == Head(keys)
           old == IF DictHas(buckets, key) THEN DictGet(buckets, key) ELSE <<>>
       IN  AppendToBuckets(DictPut(buckets, key, Append(old, copy)), Tail(keys), copy)

\* Lines 113-127 for one letter row: every token in turn.
RECURSIVE GroupTokens(_, _, _, _)
GroupTokens(buckets, dict, tokens, copy) ==
  IF tokens = <<>> THEN buckets
  ELSE GroupTokens(AppendToBuckets(buckets, matching_mps(dict, Head(tokens)), copy),
                   dict, Tail(tokens), copy)

(* ------------------------------------------------------------------ *)
(* main: validation, the generation run, summary and archive           *)
(* ------------------------------------------------------------------ *)

required_mp_columns == <<"Salutation", "First name", "Last name", "State/Electorate">>
required_letter_columns ==
  <<"ELECTORATE", "Submission Date", "Your letter", "POSTCODE", "STATE">>

Range(f) == {f[i] : i \in DOMAIN f}

\* [col for col in required if col not in df.columns]
MissingCols(required, columns) ==
  LET Absent(col) == col \notin columns
  IN  SelectSeq(required, Absent)

\* As missing_letter_cols, with the letter table never looked at.
missing_letter_cols_unchecked(df) == <<>>

missing_mp_cols(df) == MissingCols(required_mp_columns, df.columns)
missing_letter_cols(df) == MissingCols(required_letter_columns, df.columns)

\* As CountTokens, counting a token a letter repeats only once.
RECURSIVE CountTokensOnce(_, _)
CountTokensOnce(counts, tokens) ==
  IF tokens = <<>> THEN counts
  ELSE LET electorate == Head(tokens)
           n == IF DictHas(counts, electorate) THEN DictGet(counts, electorate) + 1 ELSE 1
       IN  IF \E i \in 1..Len(Tail(tokens)) : Tail(tokens)[i] = electorate
           THEN CountTokensOnce(counts, Tail(tokens))
           ELSE CountTokensOnce(DictPut(counts, electorate, n), Tail(tokens))

\* Lines 270-274 for the tokens of one letter row.
RECURSIVE CountTokens(_, _)
CountTokens(counts, tokens) ==
  IF tokens = <<>> THEN counts
  ELSE LET electorate == Head(tokens)
           n == IF DictHas(counts, electorate) THEN DictGet(counts, electorate) + 1 ELSE 1
       IN  CountTokens(DictPut(counts, electorate, n), Tail(tokens))

\* Lines 253-274: the second pass over the letter rows.
RECURSIVE letter_counts(_)
letter_counts(rows) ==
  IF rows = <<>> THEN <<>>
  ELSE CountTokens(letter_counts(SubSeq(rows, 1, Len(rows) - 1)),
                   LetterTokens(rows[Len(rows)]))

\* Lines 276-285: one summary row per generated document.
summary_data(files, dict, counts) ==
  [i \in 1..Len(files) |->
     LET key     == files[i].k
         mp_info == DictGet(dict, key)
     IN  [key        |-> key,
          Electorate |-> mp_info.Electorate,
          MP         |-> mp_info.Fullname,
          Letters    |-> IF DictHas(counts, mp_info.Electorate)
                         THEN DictGet(counts, mp_info.Electorate) ELSE 0]]

\* re.sub(r'[<>:"/\\|?*]', '', s)
Forbidden == {"<", ">", ":", "\"", "/", "\\", "|", "?", "*"}
Sanitize(s) ==
  LET Allowed(c) == c \notin Forbidden
  IN  SelectSeq(s, Allowed)

\* create_zip_file: the archive as its list of members.
create_zip_file(files, dict) ==
  [i \in 1..Len(files) |->
     LET mp_info == DictGet(dict, files[i].k)
     IN  [filename |-> Sanitize(mp_info.Electorate) \o <<",", " ">>
                       \o Sanitize(mp_info.Fullname) \o <<".", "d", "o", "c", "x">>,
          data     |-> files[i].v]]

VARIABLES
  mps_df,              \* the representative table, as loaded
  letters_df,          \* the letter table, as loaded
  pc,                  \* where the run of main is
  messages,            \* what st.error / st.warning / st.success have shown
  mp_dict,             \* process_files: the representative lookup
  electorate_letters,  \* process_files: the assignment map
  li,                  \* process_files: letter rows grouped so far
  electorates,         \* process_files: the token list of the last row grouped
  gi,                  \* process_files: lookup keys visited by the last loop
  results,             \* process_files: the result map being filled
  docx_files,          \* main: what process_files returned
  summary,             \* main: the rows of the summary table
  archive              \* main: the members of the ZIP archive

vars == <<mps_df, letters_df, pc, messages, mp_dict, electorate_letters, li,
          electorates, gi, results, docx_files, summary, archive>>

Msg(kind, text, cols) == [kind |-> kind, text |-> text, cols |-> cols]

(* ----------------------------- inputs ------------------------------ *)

RECURSIVE SeqsUpTo(_, _)
SeqsUpTo(S, n) ==
  IF n = 0 THEN {<<>>}
  ELSE LET shorter == SeqsUpTo(S, n - 1)
       IN  shorter \cup {Append(q, x) : q \in {r \in shorter : Len(r) = n - 1}, x \in S}

MpRow(electorate, first) ==
  [Salutation |-> <<"M", "r">>, First_name |-> first, Last_name |-> <<"d">>,
   State_Electorate |-> electorate]

LetterRow(electorate, date, state) ==
  [ELECTORATE |-> electorate, Submission_Date |-> date,
   Your_letter |-> <<"H", "i", " ">> \o Placeholder \o <<",">> \o Placeholder,
   POSTCODE |-> <<"3", "0", "0", "0">>, STATE_ |-> state]

\* Representative rows: two under electorate "a", one under "b", and one
\* whose electorate holds the key's separator, as one first name does.
MpRows ==
  {MpRow(<<"a">>, <<"a">>), MpRow(<<"a">>, <<"a", "_", "a">>),
   MpRow(<<"a", "_", "a">>, <<"a">>), MpRow(<<"b">>, <<"a">>)}

Jun28 == <<"Jun", 28, 2025>>

\* Letter rows for grouping: blank, single and two-token ELECTORATE fields,
\* with and without a STATE (which repeats a token of the two-token field).
GroupLetterRows ==
  {LetterRow(e, Jun28, s) :
     e \in {<<" ">>, <<"a">>, <<"a", ",", " ", "b">>},
     s \in {<<>>, <<"b">>}}

\* Submission dates: both formats, a text in neither, the earliest date
\* there is, and a missing cell.
Dates ==
  {Jun28, <<"June", 28, 2025>>, <<"Jul", 10, 2025>>, <<"28/06/2025">>,
   <<"Jan", 1, 1>>, NaN}

SortLetterRows == {LetterRow(<<"a">>, d, <<>>) : d \in Dates}

AllMpCols == Range(required_mp_columns)
AllLetterCols == Range(required_letter_columns)

Table(columns, rows) == [columns |-> columns, rows |-> rows]

Fresh ==
  /\ pc = "loaded"
  /\ messages = <<>>
  /\ mp_dict = <<>>
  /\ electorate_letters = <<>>
  /\ li = 0
  /\ electorates = <<>>
  /\ gi = 0
  /\ results = <<>>
  /\ docx_files = <<>>
  /\ summary = <<>>
  /\ archive = <<>>

\* Tables that lack a required column (their rows play no part).
InitSchema ==
  /\ \E mc \in SUBSET AllMpCols, lc \in SUBSET AllLetterCols :
       /\ mc # AllMpCols \/ lc # AllLetterCols
       /\ mps_df = Table(mc, <<>>)
       /\ letters_df = Table(lc, <<>>)
  /\ Fresh

InitGroup ==
  /\ mps_df \in {Table(AllMpCols, r) : r \in SeqsUpTo(MpRows, MaxMps)}
  /\ letters_df \in {Table(AllLetterCols, r) : r \in SeqsUpTo(GroupLetterRows, MaxLetters)}
  /\ Fresh

InitSort ==
  /\ mps_df = Table(AllMpCols, <<MpRow(<<"a">>, <<"a">>)>>)
  /\ letters_df \in {Table(AllLetterCols, r) : r \in SeqsUpTo(SortLetterRows, MaxSortLetters)}
  /\ Fresh

Init == InitSchema \/ InitGroup \/ InitSort

(* ----------------------------- actions ----------------------------- *)

ProcessVars == <<mp_dict, electorate_letters, li, electorates, gi, results>>
OutputVars == <<docx_files, summary, archive>>

\* Lines 197-202: the representative table lacks a column.
SchemaErrorMps ==
  /\ pc = "loaded"
  /\ missing_mp_cols(mps_df) # <<>>
  /\ messages' = Append(messages,
       Msg("error", "MPs CSV is missing required columns", missing_mp_cols(mps_df)))
  /\ pc' = "schema_error"
  /\ UNCHANGED <<mps_df, letters_df, ProcessVars, OutputVars>>

\* Lines 204-206: the letter table lacks a column.
SchemaErrorLetters ==
  /\ pc = "loaded"
  /\ missing_mp_cols(mps_df) = <<>>
  /\ missing_letter_cols(letters_df) # <<>>
  /\ messages' = Append(messages,
       Msg("error", "Letters CSV is missing required columns",
           missing_letter_cols(letters_df)))
  /\ pc' = "schema_error"
  /\ UNCHANGED <<mps_df, letters_df, ProcessVars, OutputVars>>

\* Lines 208-220: both tables are complete; the preview is shown.
UploadOk ==
  /\ pc = "loaded"
  /\ missing_mp_cols(mps_df) = <<>>
  /\ missing_letter_cols(letters_df) = <<>>
  /\ messages' = Append(messages, Msg("success", "Files uploaded successfully!", <<>>))
  /\ pc' = "ready"
  /\ UNCHANGED <<mps_df, letters_df, ProcessVars, OutputVars>>

\* Line 223 and lines 77-94: the button is pressed, process_files starts and
\* builds its lookup.
GenerateClicked ==
  /\ pc = "ready"
  /\ mp_dict' = BuildMpDict(mps_df.rows)
  /\ electorate_letters' = <<>>
  /\ results' = <<>>
  /\ li' = 0
  /\ gi' = 0
  /\ pc' = "grouping"
  /\ UNCHANGED <<mps_df, letters_df, messages, electorates, OutputVars>>

\* Lines 95-127: one iteration of the loop over the letter rows.
GroupLetter ==
  /\ pc = "grouping"
  /\ li < Len(letters_df.rows)
  /\ LET letter == letters_df.rows[li + 1]
         tokens == LetterTokens(letter)
     IN  /\ electorates' = tokens
         /\ electorate_letters' =
              GroupTokens(electorate_letters, mp_dict, tokens, letter_copy(letter, li + 1))
  /\ li' = li + 1
  /\ UNCHANGED <<mps_df, letters_df, pc, messages, mp_dict, gi, results, OutputVars>>

\* Line 130: the loop over the letter rows is over.
GroupingDone ==
  /\ pc = "grouping"
  /\ li = Len(letters_df.rows)
  /\ pc' = "generating"
  /\ UNCHANGED <<mps_df, letters_df, messages, ProcessVars, OutputVars>>

\* As GenerateDoc, without the test that the key has a bucket.
GenerateDocEveryKey ==
  /\ pc = "generating"
  /\ gi < Len(mp_dict)
  /\ LET key == mp_dict[gi + 1].k
         mp_info == DictGet(mp_dict, key)
         letters == IF DictHas(electorate_letters, key)
                    THEN DictGet(electorate_letters, key) ELSE <<>>
         doc == create_docx_for_electorate(mp_info.Electorate, mp_info, letters)
     IN  /\ doc.exc = ""
         /\ results' = DictPut(results, key, doc.blocks)
  /\ gi' = gi + 1
  /\ UNCHANGED <<mps_df, letters_df, pc, messages, mp_dict, electorate_letters, li,
                 electorates, OutputVars>>

\* Lines 130-136: one iteration of the loop over the lookup keys, for a key
\* without a bucket or with a bucket whose document is built.
GenerateDoc ==
  /\ pc = "generating"
  /\ gi < Len(mp_dict)
  /\ LET key == mp_dict[gi + 1].k
     IN  IF DictHas(electorate_letters, key)
         THEN LET mp_info == DictGet(mp_dict, key)
                  doc == create_docx_for_electorate(
                           mp_info.Electorate, mp_info, DictGet(electorate_letters, key))
              IN  /\ doc.exc = ""
                  /\ results' = DictPut(results, key, doc.blocks)
         ELSE results' = results
  /\ gi' = gi + 1
  /\ UNCHANGED <<mps_df, letters_df, pc, messages, mp_dict, electorate_letters, li,
                 electorates, OutputVars>>

\* Lines 135 and 324-326: building a document raises; main reports it.
GenerateRaises ==
  /\ pc = "generating"
  /\ gi < Len(mp_dict)
  /\ LET key == mp_dict[gi + 1].k
     IN  /\ DictHas(electorate_letters, key)
         /\ create_docx_for_electorate(DictGet(mp_dict, key).Electorate,
              DictGet(mp_dict, key), DictGet(electorate_letters, key)).exc # ""
  /\ messages' = Append(messages, Msg("error", "Error processing files", <<>>))
  /\ pc' = "failed"
  /\ UNCHANGED <<mps_df, letters_df, ProcessVars, OutputVars>>

\* Lines 138 and 226: process_files returns its result map.
Return ==
  /\ pc = "generating"
  /\ gi = Len(mp_dict)
  /\ docx_files' = results
  /\ pc' = "returned"
  /\ UNCHANGED <<mps_df, letters_df, messages, ProcessVars, summary, archive>>

\* Lines 228-230: nothing was generated.
WarnNoMatch ==
  /\ pc = "returned"
  /\ docx_files = <<>>
  /\ messages' = Append(messages,
       Msg("warning", "No matching electorates found between MPs and Letters files.", <<>>))
  /\ pc' = "no_match"
  /\ UNCHANGED <<mps_df, letters_df, ProcessVars, OutputVars>>

\* Lines 232-322: the summary table and the archive.
Summarise ==
  /\ pc = "returned"
  /\ docx_files # <<>>
  /\ LET dict == BuildMpDict(mps_df.rows)
     IN  /\ summary' = summary_data(docx_files, dict, letter_counts(letters_df.rows))
         /\ archive' = create_zip_file(docx_files, dict)
  /\ messages' = Append(messages, Msg("success", "Generated DOCX files!", <<>>))
  /\ pc' = "summarised"
  /\ UNCHANGED <<mps_df, letters_df, ProcessVars, docx_files>>

Next ==
  \/ SchemaErrorMps
  \/ SchemaErrorLetters
  \/ UploadOk
  \/ GenerateClicked
  \/ GroupLetter
  \/ GroupingDone
  \/ GenerateDoc
  \/ GenerateRaises
  \/ Return
  \/ WarnNoMatch
  \/ Summarise

Spec == Init /\ [][Next]_vars

(* ------------------------------------------------------------------ *)
(* Token extraction on arbitrary short texts                           *)
(* ------------------------------------------------------------------ *)

Alphabet == {"a", "b", ",", " ", "\n"}

\* The texts of at most n characters.
Texts(n) == UNION {[1..k -> Alphabet] : k \in 0..n}

MixedSeparators == <<"A", ",", " ", "B", "\n", "C">>

\* One representative under "b"; one letter whose ELECTORATE is any text of
\* at most MaxLen characters, the mixed-separator text or a missing cell.
InitTok ==
  /\ mps_df = Table(AllMpCols, <<MpRow(<<"b">>, <<"a">>)>>)
  /\ \/ \E e \in Texts(MaxLen), s \in {<<>>, <<" ", "b">>} :
          letters_df = Table(AllLetterCols, <<LetterRow(e, Jun28, s)>>)
     \/ \E e \in {MixedSeparators, NaN}, s \in {<<>>, <<" ", "b">>, NaN} :
          letters_df = Table(AllLetterCols, <<LetterRow(e, Jun28, s)>>)
  /\ Fresh

NextTok == UploadOk \/ GenerateClicked \/ GroupLetter

SpecTok == InitTok /\ [][NextTok]_vars

(* ------------------------------------------------------------------ *)
(* Vocabulary of the properties                                        *)
(* ------------------------------------------------------------------ *)

MpRowsIn == mps_df.rows
LetterRowsIn == letters_df.rows

TokenSet(letter) == Range(LetterTokens(letter))

\* The bucket of a key, empty when the map has no such key.
Bucket(key) ==
  IF DictHas(electorate_letters, key) THEN DictGet(electorate_letters, key) ELSE <<>>

\* How many copies of letter row idx a bucket holds.
Copies(bucket, idx) == Cardinality({j \in 1..Len(bucket) : bucket[j].row = idx})

\* The loop over the letter rows has finished.
Grouped == pc \in {"generating", "returned", "no_match", "summarised", "failed"}

\* The lookup keys whose Electorate is one of the letter's tokens.
MatchedKeys(letter) ==
  {key \in DictKeySet(mp_dict) : DictGet(mp_dict, key).Electorate \in TokenSet(letter)}

RECURSIVE SumLen(_)
SumLen(d) == IF d = <<>> THEN 0 ELSE Len(Head(d).v) + SumLen(Tail(d))

\* The number of lookup keys matched by each of the first n letter rows, summed.
RECURSIVE SumMatched(_)
SumMatched(n) ==
  IF n = 0 THEN 0 ELSE Cardinality(MatchedKeys(LetterRowsIn[n])) + SumMatched(n - 1)

(* ------------------------------------------------------------------ *)
(* C6: the candidate token list                                        *)
(* ------------------------------------------------------------------ *)

Separators == {",", "\n"}

\* The places that bound a piece of text s: before it, after it, and
\* every separator in it.
Cuts(s) == {0, Len(s) + 1} \cup {i \in 1..Len(s) : s[i] \in Separators}

\* The characters of the piece that starts after bound lo and are not
\* whitespace.
Inked(s, lo) ==
  LET hi == CHOOSE h \in Cuts(s) : h > lo /\ \A g \in Cuts(s) : g > lo => h <= g
  IN  {p \in (lo + 1)..(hi - 1) : s[p] \notin Whitespace}

Least(S) == CHOOSE x \in S : \A y \in S : x <= y
Greatest(S) == CHOOSE x \in S : \A y \in S : y <= x

\* The trimmed, non-empty pieces of s that start after a bound in los, in
\* text order.
RECURSIVE PiecesFrom(_, _)
PiecesFrom(s, los) ==
  IF los = {} THEN <<>>
  ELSE LET lo == Least(los)
           ink == Inked(s, lo)
       IN  (IF ink = {} THEN <<>> ELSE <<SubSeq(s, Least(ink), Greatest(ink))>>)
           \o PiecesFrom(s, los \ {lo})

ExpectedPieces(s) == PiecesFrom(s, Cuts(s) \ {Len(s) + 1})

\* The STATE text without the whitespace around it, as a list of at most
\* one token.
ExpectedStateToken(s) ==
  LET ink == {p \in 1..Len(s) : s[p] \notin Whitespace}
  IN  IF ink = {} THEN <<>> ELSE <<SubSeq(s, Least(ink), Greatest(ink))>>

Blank(s) == \A p \in 1..Len(s) : s[p] \in Whitespace

C1_OneCopyPerMatch ==
  Grouped =>
    \A idx \in 1..Len(LetterRowsIn), key \in DictKeySet(mp_dict) :
      Copies(Bucket(key), idx) =
        IF key \in MatchedKeys(LetterRowsIn[idx]) THEN 1 ELSE 0

\* C2: once every letter is grouped, the buckets together hold as many
\* copies as the letters have distinct matching representative keys.
C2_TotalIsDistinctMatches ==
  Grouped => SumLen(electorate_letters) = SumMatched(Len(LetterRowsIn))

(* ------------------------------------------------------------------ *)
(* C3: a letter with one electorate token                              *)
(* ------------------------------------------------------------------ *)

\* The tokens of the ELECTORATE field alone.
FieldTokens(letter) == ExpectedPieces(Str(letter.ELECTORATE))

KeysUnder(electorate) ==
  {key \in DictKeySet(mp_dict) : DictGet(mp_dict, key).Electorate = electorate}

\* The letter's ELECTORATE holds one token, under which the lookup has
\* exactly one representative.
SingleTokenSingleMp(letter) ==
  /\ Len(FieldTokens(letter)) = 1
  /\ Cardinality(KeysUnder(FieldTokens(letter)[1])) = 1

\* The letter's STATE adds no match: it is blank, or no representative is
\* registered under it.
StateMatchesNobody(letter) ==
  \A t \in Range(ExpectedStateToken(Str(letter.STATE_))) : KeysUnder(t) = {}

\* In its representative's bucket once, in no other bucket.
OnlyInOwnBucket(idx) ==
  \A key \in DictKeySet(mp_dict) :
    Copies(Bucket(key), idx) =
      IF key \in KeysUnder(FieldTokens(LetterRowsIn[idx])[1]) THEN 1 ELSE 0

\* C3 as stated: a letter whose ELECTORATE holds a single token matching
\* exactly one representative is in that representative's bucket exactly
\* once and in no other bucket, whatever its STATE is.
C3_WhateverTheState ==
  Grouped =>
    \A idx \in 1..Len(LetterRowsIn) :
      SingleTokenSingleMp(LetterRowsIn[idx]) => OnlyInOwnBucket(idx)

\* C3 as amended: the same, for a letter whose STATE is blank or is the
\* State/Electorate of no representative.
C3_StateMatchingNobody ==
  Grouped =>
    \A idx \in 1..Len(LetterRowsIn) :
      (SingleTokenSingleMp(LetterRowsIn[idx]) /\ StateMatchesNobody(LetterRowsIn[idx]))
        => OnlyInOwnBucket(idx)

\* A single-token letter with a STATE nobody is registered under has been
\* grouped next to a second representative and is in its own bucket.
C3_Witness ==
  /\ Grouped
  /\ Len(mp_dict) = 2
  /\ \E idx \in 1..Len(LetterRowsIn) :
       /\ SingleTokenSingleMp(LetterRowsIn[idx])
       /\ StateMatchesNobody(LetterRowsIn[idx])
       /\ LetterRowsIn[idx].STATE_ # <<>>
       /\ \E key \in DictKeySet(mp_dict) : Copies(Bucket(key), idx) = 1

(* ------------------------------------------------------------------ *)
(* C4: one document per matching representative                        *)
(* ------------------------------------------------------------------ *)

\* The representative rows one of whose letters' tokens is their
\* State/Electorate.
MatchingMpRows ==
  {i \in 1..Len(MpRowsIn) :
     \E idx \in 1..Len(LetterRowsIn) :
       MpRowsIn[i].State_Electorate \in TokenSet(LetterRowsIn[idx])}

Identity(mp) == <<mp.State_Electorate, full_name(mp)>>

\* C4: process_files returns exactly one document for each representative
\* row with a matching letter token, representatives that differ in
\* electorate or full name never sharing an entry.
C4_OneDocumentPerMatchingMp ==
  pc = "returned" =>
    /\ \A i \in MatchingMpRows :
         \E j \in 1..Len(docx_files) :
           LET mp_info == DictGet(mp_dict, docx_files[j].k)
           IN  <<mp_info.Electorate, mp_info.Fullname>> = Identity(MpRowsIn[i])
    /\ Len(docx_files) = Cardinality({Identity(MpRowsIn[i]) : i \in MatchingMpRows})

(* ------------------------------------------------------------------ *)
(* C5: no empty bucket                                                 *)
(* ------------------------------------------------------------------ *)

\* The State/Electorate of the key's representative is a token of a letter
\* row already grouped.
MatchedSoFar(key) ==
  \E idx \in 1..li : DictGet(mp_dict, key).Electorate \in TokenSet(LetterRowsIn[idx])

\* No letter row at all has the State/Electorate of the key's representative
\* among its tokens.
MatchedKeys_none(key) ==
  \A idx \in 1..Len(LetterRowsIn) : key \notin MatchedKeys(LetterRowsIn[idx])

\* C5: in every state, every key of the assignment map, of the result map
\* being filled and of the result map returned has a non-empty list and a
\* matching letter; a representative none of whose letters' tokens is its
\* State/Electorate is in none of them.
C5_NoEmptyBucket ==
  /\ \A i \in 1..Len(electorate_letters) :
       /\ Len(electorate_letters[i].v) >= 1
       /\ DictHas(mp_dict, electorate_letters[i].k)
       /\ MatchedSoFar(electorate_letters[i].k)
  /\ \A i \in 1..Len(results) :
       /\ Len(results[i].v) >= 1
       /\ DictHas(electorate_letters, results[i].k)
  /\ \A i \in 1..Len(docx_files) :
       /\ Len(docx_files[i].v) >= 1
       /\ DictHas(electorate_letters, docx_files[i].k)
  /\ \A key \in DictKeySet(mp_dict) :
       MatchedKeys_none(key) =>
         /\ ~DictHas(electorate_letters, key)
         /\ ~DictHas(results, key)
         /\ ~DictHas(docx_files, key)

\* process_files has returned documents while a representative without any
\* matching letter is in the lookup.
C5_Witness ==
  /\ pc = "returned"
  /\ docx_files # <<>>
  /\ \E key \in DictKeySet(mp_dict) : MatchedKeys_none(key) /\ ~DictHas(docx_files, key)

(* ------------------------------------------------------------------ *)
(* C7: the order of a document                                         *)
(* ------------------------------------------------------------------ *)

\* The date matches one of the two accepted formats.
Parseable(date) ==
  strptime(date, MonthAbbr).exc = "" \/ strptime(date, MonthFull).exc = ""

\* The document holds the bucket's letters, each as often as the bucket.
PermutationOfBucket(doc, bucket) ==
  /\ Len(doc) = Len(bucket)
  /\ \A idx \in 1..Len(LetterRowsIn) : Copies(doc, idx) = Copies(bucket, idx)
  /\ \A j \in 1..Len(doc) : doc[j].Date = LetterRowsIn[doc[j].row].Submission_Date

Ascending(doc) ==
  \A j, k \in 1..Len(doc) :
    j < k => DateLeq(parse_date(doc[j].Date).dt, parse_date(doc[k].Date).dt)

UnparseableFirst(doc) ==
  \A j, k \in 1..Len(doc) :
    (~Parseable(doc[j].Date) /\ Parseable(doc[k].Date)) => j < k

\* C7: every document is a permutation of its representative's bucket in
\* ascending order of parsed date, every letter with an unparseable date
\* comes before every letter with a parseable one, and an unparseable date
\* never aborts processing.
C7_SortedUnparseableFirst ==
  /\ pc # "failed"
  /\ \A i \in 1..Len(results) :
       /\ PermutationOfBucket(results[i].v, Bucket(results[i].k))
       /\ Ascending(results[i].v)
       /\ UnparseableFirst(results[i].v)

(* ------------------------------------------------------------------ *)
(* C8: schema errors                                                   *)
(* ------------------------------------------------------------------ *)

MissingMp == AllMpCols \ mps_df.columns
MissingLetter == AllLetterCols \ letters_df.columns

\* The columns the reported errors name.
NamedCols == UNION {Range(messages[i].cols) : i \in 1..Len(messages)}

\* process_files has not been entered and nothing has been produced.
NothingProcessed ==
  /\ pc \in {"loaded", "schema_error"}
  /\ mp_dict = <<>> /\ electorate_letters = <<>> /\ results = <<>>
  /\ docx_files = <<>> /\ summary = <<>> /\ archive = <<>>

\* C8 as stated: when a required column is absent from either table, the
\* schema error names every missing column (of both tables) and
\* process_files is never invoked.
C8_NamesEveryMissingColumn ==
  (MissingMp # {} \/ MissingLetter # {}) =>
    /\ NothingProcessed
    /\ pc = "schema_error" => NamedCols = MissingMp \cup MissingLetter

\* C8 as amended: the schema error names every missing column of the
\* representative table when that table lacks one, and every missing
\* column of the letter table only when the representative table is
\* complete; process_files is never invoked.
C8_NamesFirstFailingTable ==
  (MissingMp # {} \/ MissingLetter # {}) =>
    /\ NothingProcessed
    /\ pc = "schema_error" =>
         /\ Len(messages) = 1
         /\ messages[1].kind = "error"
         /\ NamedCols = IF MissingMp # {} THEN MissingMp ELSE MissingLetter
         /\ Len(messages[1].cols) = Cardinality(NamedCols)

\* A schema error has been reported for tables that both lack columns.
C8_Witness ==
  /\ pc = "schema_error"
  /\ MissingMp # {} /\ MissingLetter # {}
  /\ NamedCols = MissingMp

(* ------------------------------------------------------------------ *)
(* C9: the no-match outcome                                            *)
(* ------------------------------------------------------------------ *)

HasMessage(kind) == \E i \in 1..Len(messages) : messages[i].kind = kind

Ended == pc \in {"schema_error", "no_match", "summarised", "failed"}

\* C9: with both tables complete and no representative's State/Electorate
\* among the tokens of any letter, a generation run neither fails nor
\* produces anything and ends with the no-match warning; the warning is
\* shown only when the result map is empty.
C9_NoMatchWarning ==
  /\ (MissingMp = {} /\ MissingLetter = {} /\ MatchingMpRows = {}) =>
       /\ pc \notin {"schema_error", "failed", "summarised"}
       /\ ~HasMessage("error")
       /\ electorate_letters = <<>> /\ results = <<>> /\ docx_files = <<>>
       /\ summary = <<>> /\ archive = <<>>
       /\ Ended => (pc = "no_match" /\ HasMessage("warning"))
  /\ HasMessage("warning") =>
       (pc = "no_match" /\ docx_files = <<>> /\ results = <<>>)

\* A run over representatives and letters with tokens, none matching, has
\* ended.
C9_Witness ==
  /\ pc = "no_match"
  /\ MpRowsIn # <<>>
  /\ \E idx \in 1..Len(LetterRowsIn) : LetterTokens(LetterRowsIn[idx]) # <<>>

(* ------------------------------------------------------------------ *)
(* C10: the summary's counts                                           *)
(* ------------------------------------------------------------------ *)

\* C10: for every representative in the summary, the 'Letters' count is
\* the number of letters in the representative's bucket and in the
\* representative's document.
C10_SummaryCountsBucket ==
  pc = "summarised" =>
    /\ Len(summary) = Len(docx_files)
    /\ \A i \in 1..Len(summary) :
         /\ summary[i].Letters = Len(Bucket(summary[i].key))
         /\ summary[i].Letters = Len(DictGet(docx_files, summary[i].key))

\* A summary row counts more letters than there are letter rows: a letter
\* was put in the bucket more than once.
C10_Witness ==
  /\ pc = "summarised"
  /\ \E i \in 1..Len(summary) : summary[i].Letters > Len(LetterRowsIn)

====
